---------------------------- MODULE Spec2Model ----------------------------
(***************************************************************************)
(* TypedRPC: JSON RPC over raw TCP sockets (typedrpc/sockets.py and its    *)
(* predecessor urpctools/base.py) and the background service thread        *)
(* (typedrpc/threads.py).                                                  *)
(*                                                                         *)
(* Bytes are naturals 0..255 and byte strings are sequences of them.  A    *)
(* client operation (one _rpc, _ping or _send_and_receive call) opens at   *)
(* most one connection and a caller makes one call at a time, so callers   *)
(* and their connections share the index set Conns.  Each direction of a   *)
(* connection is the sequence of bytes written so far together with the    *)
(* count of bytes the peer has read.                                       *)
(***************************************************************************)
EXTENDS Integers, Sequences, FiniteSets

(***************************************************************************)
(* Bounds of the model.  Two callers use the client concurrently; each     *)
(* makes at most MaxCalls calls, one after the other.                      *)
(***************************************************************************)
MaxCalls == 1

Conns == {1, 2}

(***************************************************************************)
(* Class constants of RPCSocketService.                                    *)
(***************************************************************************)
\* b'ping'
_ping_req == <<112, 105, 110, 103>>

\* b'pong'
_ping_resp == <<112, 111, 110, 103>>

\* b'\0'
_eof == <<0>>

_buffer_size == 4096

\* the bytes that bytes.strip() removes: b' \t\n\r\x0b\x0c'
Whitespace == {9, 10, 11, 12, 13, 32}

(***************************************************************************)
(* bytes.rstrip(b'\0') and bytes.strip(), as _recv_data applies them.      *)
(***************************************************************************)
RStripSet(b, S) ==
  LET keep == {n \in 0..Len(b) : \A i \in (n + 1)..Len(b) : b[i] \in S}
      n == CHOOSE m \in keep : \A k \in keep : m <= k
  IN  SubSeq(b, 1, n)

LStripSet(b, S) ==
  LET drop == {n \in 0..Len(b) : \A i \in 1..n : b[i] \in S}
      n == CHOOSE m \in drop : \A k \in drop : m >= k
  IN  SubSeq(b, n + 1, Len(b))

Strip(b) == LStripSet(RStripSet(b, Whitespace), Whitespace)

\* resp_data_raw.rstrip(b'\0').strip()
RecvResult(buf) == Strip(RStripSet(buf, {0}))

\* self._eof in data_chunk or not data_chunk
RecvBreakAfterFirstChunk(chunk) == TRUE

RecvBreakOnTerminatorOnly(chunk) == \E i \in 1..Len(chunk) : chunk[i] = 0

RecvBreak(chunk) == (\E i \in 1..Len(chunk) : chunk[i] = 0) \/ chunk = <<>>

\* the chunks one sock.recv(self._buffer_size) may return when `avail` bytes
\* are readable: any non-empty prefix of at most _buffer_size bytes
RecvSizes(avail) == {n \in 1..avail : n <= _buffer_size}

(***************************************************************************)
(* Python values that cross the codec: a mapping (dict, and a TypedDict    *)
(* is a dict at run time), an int, or a dataclass instance.  Keys and      *)
(* string values are one character long.                                   *)
(***************************************************************************)
Dict(items) == [kind |-> "dict", items |-> items, n |-> 0]

IntVal(n) == [kind |-> "int", items |-> <<>>, n |-> n]

Dataclass(items) == [kind |-> "dataclass", items |-> items, n |-> 0]

\* 'c' (the request's command) and 'e' (the response's echo)
Keys == {99, 101}

\* 'a' and 'b'
Vals == {97, 98}

\* the documents json.loads can yield in this model: {} , {"k": "v"} and 1
JsonValues ==
  {Dict(<<>>), IntVal(1)} \cup {Dict(<<<<k, v>>>>) : k \in Keys, v \in Vals}

\* "k": "v" with json.dumps's default separators
DumpsItem(it) == <<34, it[1], 34, 58, 32, 34, it[2], 34>>

json_text(v) ==
  IF v.kind = "int"
    THEN <<48 + v.n>>
    ELSE <<123>> \o (IF v.items = <<>> THEN <<>> ELSE DumpsItem(v.items[1]))
               \o <<125>>

\* json.dumps(obj).encode() with the default encoder: a dataclass instance
\* is not JSON serializable
json_dumps(v) ==
  IF v.kind = "dataclass"
    THEN [exc |-> "TypeError", raw |-> <<>>]
    ELSE [exc |-> "none", raw |-> json_text(v)]

\* the whitespace json.loads skips around a document: b' \t\n\r'
JsonWhitespace == {9, 10, 13, 32}

\* json.loads(raw): every byte string of this model that is no text of
\* JsonValues (ping, x, a string with a NUL, a proper prefix of a document,
\* the empty string) is no JSON document
json_loads(raw) ==
  LET s == LStripSet(RStripSet(raw, JsonWhitespace), JsonWhitespace)
      hits == {v \in JsonValues : json_text(v) = s}
  IN  IF hits = {}
        THEN [exc |-> "JSONDecodeError", val |-> IntVal(0)]
        ELSE [exc |-> "none", val |-> CHOOSE v \in hits : TRUE]

(***************************************************************************)
(* The bound request and response classes.  With urpctools they are        *)
(* TypedDicts (RPCRequest, RPCResponse), with typedrpc dataclasses         *)
(* (APIRequest, APIResponse) whose __post_init__ rejects a missing         *)
(* required field.                                                         *)
(***************************************************************************)
Bindings == {"TypedDict", "dataclass"}

Fields(role) == IF role = "request" THEN {99} ELSE {101}

ItemKeys(v) == {v.items[i][1] : i \in 1..Len(v.items)}

\* cls(**obj)
Construct(bind, role, v) ==
  IF v.kind # "dict"
    THEN [exc |-> "TypeError", val |-> IntVal(0)]
    ELSE IF bind = "TypedDict"
      THEN [exc |-> "none", val |-> v]
      ELSE IF ItemKeys(v) = Fields(role)
        THEN [exc |-> "none", val |-> Dataclass(v.items)]
        ELSE [exc |-> "TypeError", val |-> IntVal(0)]

\* an instance of the bound class with the one field set
Instance(bind, key, val) ==
  IF bind = "TypedDict" THEN Dict(<<<<key, val>>>>)
                        ELSE Dataclass(<<<<key, val>>>>)

(***************************************************************************)
(* State.                                                                  *)
(*   binding  which record classes the service is bound to                 *)
(*   srv      the server: its place in _listen, its listening socket, the  *)
(*            connection being handled, the receive buffer and the         *)
(*            exception that left _listen                                  *)
(*   backlog  connections completed by connect() and not yet accepted      *)
(*   cli      per client operation: the call, its arguments, its socket,   *)
(*            the bytes it wrote (out), how many of the server's bytes it  *)
(*            read (rd), its receive buffer and its outcome                *)
(*   sc       per connection, the server's end: the accepted socket, the   *)
(*            bytes written and read, the framed message, the handler's    *)
(*            calls and return value                                       *)
(*   ncalls   per caller, the calls made so far                            *)
(*   runner   a BackgroundServiceThread: its thread, its stop event, its   *)
(*            safe_stop flag and what its exec_fn does                     *)
(*   stops    per caller of stop(), the argument and the place in stop()   *)
(*   scope    the with statement that thread 1 runs on the runner          *)
(*   naming   BackgroundServiceThread._services_count and, per creating    *)
(*            thread, the runner it creates: its _thread_name, the name    *)
(*            of its thread and the place in __init__ or in the setter     *)
(***************************************************************************)
VARIABLES binding, srv, backlog, cli, sc, ncalls, runner, stops, scope,
          naming, codec

vars ==
  <<binding, srv, backlog, cli, sc, ncalls, runner, stops, scope, naming,
    codec>>

tvars == <<binding, srv, backlog, cli, sc, ncalls>>

rvars == <<runner, stops, scope, naming, codec>>

nvars == <<naming>>

cvars == <<codec>>

NoVal == IntVal(0)

CliInit ==
  [pc |-> "idle", op |-> "none", req |-> NoVal, payload |-> <<>>,
   skip |-> FALSE, sock |-> "none", connected |-> FALSE, out |-> <<>>,
   rd |-> 0, buf |-> <<>>, recvs |-> 0, raw |-> <<>>,
   terr |-> FALSE, exc |-> "none", val |-> NoVal, ok |-> FALSE]

ScInit ==
  [end |-> "none", out |-> <<>>, rd |-> 0, msg |-> <<>>, got |-> FALSE,
   calls |-> 0, ret |-> NoVal, reply |-> <<>>]

SrvInit ==
  [pc |-> "Idle", sock |-> "none", conn |-> 0, buf |-> <<>>, exc |-> "none",
   at |-> "none"]

\* the callers of stop(): two threads
Stoppers == {1, 2}

\* BackgroundServiceThreadBase.__init__ with start=False, safe_stop=True
RunnerInit ==
  [built |-> TRUE, thread |-> "initial", stop_event |-> FALSE,
   safe_stop |-> TRUE, unit |-> "loop"]

StopInit == [pc |-> "idle", wait |-> "None"]

\* no with statement has been entered
ScopeInit == [pc |-> "none", how |-> "none"]

\* the threads that create runners
Creators == {1, 2}

\* a name is a base name and the number appended to it; 0 is no postfix
NoName == <<"none", 0>>

\* no runner yet
ObjInit ==
  [pc |-> "idle", base |-> NoName, tname |-> NoName, arg |-> NoName,
   tmp |-> 0, renames |-> 0]

\* _services_count = Counter(): the empty counter, with the increments and
\* decrements made on it so far; attr is whether the class of the runners
\* has a class attribute _thread (BackgroundServiceThread has none)
\* the codec's view, a record that grows with pc: new; raised or built, with
\* the class, the arguments a caller passed, the record built from them and
\* the exception; encoded, with the document and the way it was made;
\* decoded, with the record decoded from it and the decoder's exception
CodecInit == [pc |-> "new"]

NamingInit(attr) ==
  [attr |-> attr, count |-> <<>>, incs |-> <<>>, decs |-> <<>>,
   obj |-> [k \in Creators |-> ObjInit]]

TransportInit ==
  /\ srv = SrvInit
  /\ backlog = <<>>
  /\ cli = [c \in Conns |-> CliInit]
  /\ sc = [c \in Conns |-> ScInit]
  /\ ncalls = [c \in Conns |-> 0]

Init ==
  /\ binding \in Bindings
  /\ TransportInit
  /\ runner = RunnerInit
  /\ stops = [s \in Stoppers |-> StopInit]
  /\ scope = ScopeInit
  /\ naming = NamingInit(FALSE)
  /\ codec = CodecInit

(***************************************************************************)
(* Inputs of the client operations.                                        *)
(***************************************************************************)
\* the requests a caller passes to _rpc: instances of the bound class
ReqValues(bind) == {Instance(bind, 99, v) : v \in Vals}

\* the raw requests a caller passes to _send_and_receive: x (no JSON) and
\* a well-formed request
RawPayloads == {<<120>>, json_text(Dict(<<<<99, 97>>>>))}

(***************************************************************************)
(* The client: RPCSocketClientBase.                                        *)
(***************************************************************************)
\* _rpc after _send_and_receive returned resp_data_raw
RpcDecode(bind, raw) ==
  LET l == json_loads(raw)
      r == Construct(bind, "response", l.val)
  IN  IF l.exc # "none"
        THEN [exc |-> "RPCError", val |-> NoVal]
        ELSE IF r.exc # "none"
          THEN [exc |-> r.exc, val |-> NoVal]
          ELSE [exc |-> "none", val |-> r.val]

\* _ping after _send_and_receive: sar is [exc, raw]
PingResultWrongPayload(sar) == sar.exc = "none" /\ sar.raw = _ping_req

PingResult(sar) == sar.exc = "none" /\ sar.raw = _ping_resp

\* how the operation of record r0 ends once _send_and_receive has ended with
\* sar = [exc |-> "none" or "OSError", raw |-> the bytes returned]: OSError
\* is re-raised as RPCError, _ping turns RPCError into False, _rpc decodes
Finish(r0, sar) ==
  LET r == [r0 EXCEPT !.pc = "done", !.terr = sar.exc # "none"]
      wrapped == IF sar.exc = "none" THEN "none" ELSE "RPCError"
      d == RpcDecode(binding, sar.raw)
  IN  CASE r.op = "send_and_receive" ->
             [r EXCEPT !.raw = sar.raw, !.exc = wrapped]
        [] r.op = "ping" ->
             [r EXCEPT !.raw = sar.raw, !.exc = "none",
                       !.ok = PingResult(sar)]
        [] r.op = "rpc" ->
             IF wrapped # "none"
               THEN [r EXCEPT !.exc = wrapped]
               ELSE [r EXCEPT !.raw = sar.raw, !.exc = d.exc, !.val = d.val]

\* leaving `with ... as sock`
CloseSock(r) == [r EXCEPT !.sock = "closed"]

Pending(c) == \E i \in 1..Len(backlog) : backlog[i] = c

\* the connection's server end is gone: closed, or dropped unaccepted when
\* the listening socket was closed
ServerGone(c) ==
  \/ sc[c].end = "closed"
  \/ sc[c].end = "none" /\ ~Pending(c)

\* the caller's previous connection, if any, is finished at both ends
SlotFree(c) == sc[c].end # "open" /\ ~Pending(c)

\* _create_socket: socket.socket() allocates the handle, connect() reaches
\* the listening socket or raises; the `with` is entered only on success
Connect(c, r) ==
  IF srv.sock = "listening"
    THEN /\ cli' = [cli EXCEPT ![c] =
                      [r EXCEPT !.pc = "send", !.sock = "open",
                                !.connected = TRUE]]
         /\ backlog' = Append(backlog, c)
    ELSE /\ cli' = [cli EXCEPT ![c] =
                      Finish([r EXCEPT !.sock = "open"],
                             [exc |-> "OSError", raw |-> <<>>])]
         /\ backlog' = backlog

\* the call is made: _rpc encodes the request, then _send_and_receive
\* creates the socket
ClientCall(c) ==
  /\ \/ cli[c].pc = "idle"
     \/ cli[c].pc = "done" /\ SlotFree(c)
  /\ ncalls[c] < MaxCalls
  /\ c > 1 => ncalls[c - 1] > 0
  /\ ncalls' = [ncalls EXCEPT ![c] = @ + 1]
  /\ sc' = [sc EXCEPT ![c] = ScInit]
  /\ \/ \E req \in ReqValues(binding), skip \in BOOLEAN :
          LET d == json_dumps(req)
              r == [CliInit EXCEPT !.op = "rpc", !.req = req, !.skip = skip,
                                   !.payload = d.raw]
          IN  IF d.exc # "none"
                THEN /\ cli' = [cli EXCEPT ![c] =
                                  [r EXCEPT !.pc = "done", !.exc = d.exc]]
                     /\ backlog' = backlog
                ELSE Connect(c, r)
     \/ \E skip \in BOOLEAN :
          Connect(c, [CliInit EXCEPT !.op = "ping", !.skip = skip,
                                     !.payload = _ping_req])
     \/ \E raw \in RawPayloads, skip \in BOOLEAN :
          Connect(c, [CliInit EXCEPT !.op = "send_and_receive",
                                     !.skip = skip, !.payload = raw])
  /\ UNCHANGED <<binding, srv, rvars>>

\* sock.send(req_data_raw + self._eof): the transport takes a non-empty
\* prefix of the bytes; with skip_receive the call ends here
SentAppendsEof(payload) == payload \o _eof

ClientSend(c) ==
  /\ cli[c].pc = "send"
  /\ LET data == SentAppendsEof(cli[c].payload)
     IN  \E n \in 1..Len(data) :
           LET r == [cli[c] EXCEPT !.out = SubSeq(data, 1, n)]
           IN  cli' = [cli EXCEPT ![c] =
                         IF r.skip
                           THEN Finish(CloseSock(r),
                                       [exc |-> "none", raw |-> <<>>])
                           ELSE [r EXCEPT !.pc = "recv"]]
  /\ UNCHANGED <<binding, srv, backlog, sc, ncalls, rvars>>

\* sock.send raises OSError: the peer is gone
ClientSendError(c) ==
  /\ cli[c].pc = "send"
  /\ ServerGone(c)
  /\ cli' = [cli EXCEPT ![c] =
               Finish(CloseSock(cli[c]), [exc |-> "OSError", raw |-> <<>>])]
  /\ UNCHANGED <<binding, srv, backlog, sc, ncalls, rvars>>

\* one pass of _recv_data's loop on the client's socket
ClientRecv(c) ==
  /\ cli[c].pc = "recv"
  /\ LET avail == Len(sc[c].out) - cli[c].rd
     IN  \E n \in IF avail > 0 THEN RecvSizes(avail)
                   ELSE IF sc[c].end = "closed" THEN {0} ELSE {} :
           LET chunk == SubSeq(sc[c].out, cli[c].rd + 1, cli[c].rd + n)
               r == [cli[c] EXCEPT !.rd = @ + n, !.buf = @ \o chunk,
                                   !.recvs = 1]
           IN  cli' = [cli EXCEPT ![c] =
                         IF RecvBreak(chunk)
                           THEN Finish(CloseSock(r),
                                  [exc |-> "none", raw |-> RecvResult(r.buf)])
                           ELSE r]
  /\ UNCHANGED <<binding, srv, backlog, sc, ncalls, rvars>>

\* sock.recv raises OSError: socket.timeout while nothing arrives, or the
\* connection was reset
ClientRecvError(c) ==
  /\ cli[c].pc = "recv"
  /\ Len(sc[c].out) = cli[c].rd
  /\ sc[c].end # "closed"
  /\ cli' = [cli EXCEPT ![c] =
               Finish(CloseSock([cli[c] EXCEPT !.recvs = 1]),
                      [exc |-> "OSError", raw |-> <<>>])]
  /\ UNCHANGED <<binding, srv, backlog, sc, ncalls, rvars>>

(***************************************************************************)
(* The server: RPCSocketServerBase._listen.                                *)
(***************************************************************************)
\* _create_socket binds and listens, or bind raises before the `with` is
\* entered
ServerStart ==
  /\ srv.pc = "Idle"
  /\ \/ srv' = [srv EXCEPT !.pc = "Listening", !.sock = "listening"]
     \/ srv' = [srv EXCEPT !.pc = "Stopped", !.sock = "open",
                           !.exc = "OSError", !.at = "bind"]
  /\ UNCHANGED <<binding, backlog, cli, sc, ncalls, rvars>>

\* sock.accept() is called at the top of the loop only, after `with conn`
\* was left
CanAcceptWhileHandling(pc) == pc \in {"Listening", "Receiving"}

CanAccept(pc) == pc = "Listening"

\* conn, addr = sock.accept(): the oldest pending connection
ServerAccept ==
  /\ CanAccept(srv.pc)
  /\ backlog # <<>>
  /\ srv' = [srv EXCEPT !.pc = "Receiving", !.conn = Head(backlog),
                        !.buf = <<>>]
  /\ sc' = [sc EXCEPT ![Head(backlog)].end = "open"]
  /\ backlog' = Tail(backlog)
  /\ UNCHANGED <<binding, cli, ncalls, rvars>>

\* socket.timeout is caught around sock.accept() only, and accept times
\* out when nothing is pending
TimesOutWhileHandling(pc, pending) ==
  pc \in {"Listening", "Receiving"} /\ pending = <<>>

TimesOut(pc, pending) == pc = "Listening" /\ pending = <<>>

\* except socket.timeout: nothing is pending when the accept timeout expires
ServerAcceptTimeout ==
  /\ TimesOut(srv.pc, backlog)
  /\ srv' = [srv EXCEPT !.pc = "Callback"]
  /\ UNCHANGED <<binding, backlog, cli, sc, ncalls, rvars>>

\* self._no_clients_timeout_callback() returns; continue
NoClientsTimeoutCallback ==
  /\ srv.pc = "Callback"
  /\ srv' = [srv EXCEPT !.pc = "Listening"]
  /\ UNCHANGED <<binding, backlog, cli, sc, ncalls, rvars>>

\* one pass of _recv_data's loop on the accepted connection, which has no
\* timeout: it blocks until bytes arrive or the client closes
ServerRecv ==
  /\ srv.pc = "Receiving"
  /\ LET c == srv.conn
         avail == Len(cli[c].out) - sc[c].rd
     IN  \E n \in IF avail > 0 THEN RecvSizes(avail)
                   ELSE IF cli[c].sock = "closed" THEN {0} ELSE {} :
           LET chunk == SubSeq(cli[c].out, sc[c].rd + 1, sc[c].rd + n)
               buf == srv.buf \o chunk
           IN  IF RecvBreak(chunk)
                 THEN /\ srv' = [srv EXCEPT !.pc = "Dispatching", !.buf = buf]
                      /\ sc' = [sc EXCEPT ![c].rd = @ + n, ![c].got = TRUE,
                                          ![c].msg = RecvResult(buf)]
                 ELSE /\ srv' = [srv EXCEPT !.buf = buf]
                      /\ sc' = [sc EXCEPT ![c].rd = @ + n]
  /\ UNCHANGED <<binding, backlog, cli, ncalls, rvars>>

\* an exception leaves `with conn` (closing the connection), the loop and
\* `with sock` (closing the listening socket)
\* (exc is the exception, at the call that raised it)
Raise(exc, at) ==
  [srv EXCEPT !.pc = "Stopped", !.sock = "closed", !.conn = 0, !.buf = <<>>,
              !.exc = exc, !.at = at]

\* the connection was handled: `with conn` is left and the loop goes on
NextAccept == [srv EXCEPT !.pc = "Listening", !.conn = 0, !.buf = <<>>]

\* conn.sendall(data) succeeds, or raises OSError when the peer has closed
SendallOutcomes(c) ==
  {"none"} \cup (IF cli[c].sock = "closed" THEN {"OSError"} ELSE {})

\* what rpc_callback may do with a request: return the bound response
\* echoing the command, return a value that is no response, or raise
HandlerOutcomes(req) ==
  {[exc |-> "none", val |-> Instance(binding, 101, req.items[i][2])] :
     i \in {j \in 1..Len(req.items) : req.items[j][1] = 99}}
  \cup {[exc |-> "none", val |-> IntVal(1)],
        [exc |-> "HandlerError", val |-> NoVal]}

\* the reply to the reserved ping request
PingReply == _ping_resp \o _eof

\* the reply carrying the handler's response
ResponseReply(raw) == raw

\* is the framed message the liveness request?
IsPingNever(msg) == FALSE

IsPing(msg) == msg = _ping_req

\* lines 165-171 and the exit of `with conn`
ServerDispatch ==
  /\ srv.pc = "Dispatching"
  /\ LET c == srv.conn
         l == json_loads(sc[c].msg)
         q == Construct(binding, "request", l.val)
     IN  IF IsPing(sc[c].msg)
           THEN \E s \in SendallOutcomes(c) :
                  IF s = "none"
                    THEN /\ sc' = [sc EXCEPT ![c].end = "closed",
                                             ![c].out = PingReply,
                                             ![c].reply = _ping_resp]
                         /\ srv' = NextAccept
                    ELSE /\ sc' = [sc EXCEPT ![c].end = "closed"]
                         /\ srv' = Raise(s, "sendall")
           ELSE IF l.exc # "none" \/ q.exc # "none"
             THEN /\ sc' = [sc EXCEPT ![c].end = "closed"]
                  /\ srv' = IF l.exc # "none" THEN Raise(l.exc, "json.loads")
                                             ELSE Raise(q.exc, "_req_cls")
             ELSE \E h \in HandlerOutcomes(q.val) :
                    LET d == json_dumps(h.val)
                    IN  IF h.exc # "none" \/ d.exc # "none"
                          THEN /\ sc' = [sc EXCEPT ![c].end = "closed",
                                                   ![c].calls = @ + 1,
                                                   ![c].ret = h.val]
                               /\ srv' = IF h.exc # "none"
                                            THEN Raise(h.exc, "rpc_callback")
                                            ELSE Raise(d.exc, "json.dumps")
                          ELSE \E s \in SendallOutcomes(c) :
                                 IF s = "none"
                                   THEN /\ sc' = [sc EXCEPT
                                                    ![c].end = "closed",
                                                    ![c].calls = @ + 1,
                                                    ![c].ret = h.val,
                                                    ![c].out =
                                                      ResponseReply(d.raw),
                                                    ![c].reply = d.raw]
                                        /\ srv' = NextAccept
                                   ELSE /\ sc' = [sc EXCEPT
                                                    ![c].end = "closed",
                                                    ![c].calls = @ + 1,
                                                    ![c].ret = h.val]
                                        /\ srv' = Raise(s, "sendall")
  \* closing the listening socket drops the connections it never accepted
  /\ backlog' = IF srv'.sock = "listening" THEN backlog ELSE <<>>
  /\ UNCHANGED <<binding, cli, ncalls, rvars>>

Next ==
  \/ \E c \in Conns : ClientCall(c)
  \/ \E c \in Conns : ClientSend(c)
  \/ \E c \in Conns : ClientSendError(c)
  \/ \E c \in Conns : ClientRecv(c)
  \/ \E c \in Conns : ClientRecvError(c)
  \/ ServerStart
  \/ ServerAccept
  \/ ServerAcceptTimeout
  \/ NoClientsTimeoutCallback
  \/ ServerRecv
  \/ ServerDispatch

Spec == Init /\ [][Next]_vars

(***************************************************************************)
(* Properties of the transport.                                            *)
(***************************************************************************)
IsPrefix(a, b) == Len(a) <= Len(b) /\ a = SubSeq(b, 1, Len(a))

HasNul(b) == \E i \in 1..Len(b) : b[i] = 0

\* the framed message decodes as a request of the bound class
Decodable(msg) ==
  /\ json_loads(msg).exc = "none"
  /\ Construct(binding, "request", json_loads(msg).val).exc = "none"

\* the server has accepted connection c, handled it and closed it
Handled(c) == sc[c].end = "closed"

\* C1: a non-ping message that cannot be decoded as the bound request type
\* closes its connection only: the exception that json.loads or the request
\* class raises never ends the accept loop, the server stays Listening.
C1_MalformedRequestKeepsListening ==
  ~(srv.pc = "Stopped" /\ srv.at \in {"json.loads", "_req_cls"})

\* C2: an exception raised by rpc_callback closes its connection without a
\* reply and never ends the accept loop.
C2_HandlerFailureKeepsListening ==
  ~(srv.pc = "Stopped" /\ srv.at = "rpc_callback")

\* C3: every finished _rpc call has returned a response or raised RPCError;
\* no other exception leaves the call.
C3_RpcRaisesOnlyRPCError ==
  \A c \in Conns :
    (cli[c].pc = "done" /\ cli[c].op = "rpc") =>
      cli[c].exc \in {"none", "RPCError"}

\* C4: a finished _ping has raised nothing, and it returned True exactly
\* when no transport error occurred and the reply its connection delivered
\* is the pong payload, which the server then wrote to that connection.
C4_PingTrueIffPong ==
  \A c \in Conns :
    (cli[c].pc = "done" /\ cli[c].op = "ping") =>
      /\ cli[c].exc = "none"
      /\ cli[c].ok <=>
           (~cli[c].terr /\ cli[c].recvs = 1
              /\ RecvResult(cli[c].buf) = _ping_resp)
      /\ cli[c].ok => sc[c].reply = _ping_resp

\* C4 witness: a probe of a live server returned True, and a probe
\* returned False.
C4_Witness ==
  /\ cli[1].pc = "done" /\ cli[1].op = "ping" /\ cli[1].ok
  /\ cli[2].pc = "done" /\ cli[2].op = "ping" /\ ~cli[2].ok

\* the server's reply to a ping on connection c: pong and the terminator,
\* or nothing when sendall raised on a peer that has closed
PongSent(c) ==
  \/ sc[c].out = _ping_resp \o _eof
  \/ sc[c].out = <<>> /\ srv.at = "sendall"

\* C5 as claimed: a handled connection whose message is ping was sent the
\* pong reply and got no handler call; every handled connection with
\* another message got exactly one handler call; no other connection got
\* one.
C5_HandlerOncePerNonPing ==
  \A c \in Conns :
    IF Handled(c)
      THEN IF sc[c].msg = _ping_req
             THEN sc[c].calls = 0 /\ PongSent(c)
             ELSE sc[c].calls = 1
      ELSE sc[c].calls = 0

\* C5 amended: a handled ping was sent the pong reply and got no handler
\* call; a handled connection with another message got one handler call if
\* the message decodes as the bound request type and none if it does not;
\* no other connection got one.
C5_HandlerOncePerDecodedRequest ==
  \A c \in Conns :
    IF Handled(c)
      THEN IF sc[c].msg = _ping_req
             THEN sc[c].calls = 0 /\ PongSent(c)
             ELSE sc[c].calls = IF Decodable(sc[c].msg) THEN 1 ELSE 0
      ELSE sc[c].calls = 0

\* C5 witness: one handled connection carried a ping and was answered pong
\* without the handler, the other a request and the handler ran once.
C5_Witness ==
  /\ Handled(1) /\ sc[1].msg = _ping_req /\ sc[1].calls = 0
  /\ sc[1].out = _ping_resp \o _eof
  /\ Handled(2) /\ sc[2].msg # _ping_req /\ sc[2].calls = 1

\* C6: an operation that has finished holds no open socket: the client's
\* socket is closed when its call has ended, and an accepted connection is
\* open only while the server handles it.
C6_NoSocketLeftOpen ==
  \A c \in Conns :
    /\ cli[c].pc = "done" => cli[c].sock # "open"
    /\ sc[c].end = "open" =>
         srv.conn = c /\ srv.pc \in {"Receiving", "Dispatching"}

\* C7: what was written to a connection is the payload followed by one
\* terminator byte: the client's bytes are (the part the transport took
\* of) request + 0x00, the server's bytes are reply + 0x00.
C7_EveryMessageTerminated ==
  \A c \in Conns :
    /\ IsPrefix(cli[c].out, cli[c].payload \o _eof)
    /\ sc[c].out # <<>> => sc[c].out = sc[c].reply \o _eof

\* C9: a call in skip_receive mode that was connected and met no transport
\* error wrote the request and terminator, did no receive and returned
\* without raising.
C9_SkipReceiveReturns ==
  \A c \in Conns :
    (cli[c].pc = "done" /\ cli[c].skip /\ cli[c].connected /\ ~cli[c].terr) =>
      /\ IsPrefix(cli[c].out, cli[c].payload \o _eof)
      /\ cli[c].recvs = 0 /\ cli[c].rd = 0
      /\ cli[c].exc = "none"

(***************************************************************************)
(* Framing alone: caller 1 is inside _send_and_receive, connected to the   *)
(* listening server, with any short byte string over terminator, space     *)
(* and x (or a ping with such bytes around it) as the request.             *)
(***************************************************************************)
MaxFrameLen == 3

FrameBytes == {0, 32, 120}

FramePayloads ==
  UNION {[1..n -> FrameBytes] : n \in 0..MaxFrameLen}
    \cup {pre \o _ping_req \o post :
            pre \in {<<>>, <<32>>}, post \in {<<>>, <<10>>, <<0, 32>>}}

InitFraming ==
  /\ binding = "TypedDict"
  /\ srv = [SrvInit EXCEPT !.pc = "Listening", !.sock = "listening"]
  /\ backlog = <<1>>
  /\ \E raw \in FramePayloads :
       cli = [c \in Conns |->
                IF c = 1
                  THEN [CliInit EXCEPT !.op = "send_and_receive",
                                       !.payload = raw, !.pc = "send",
                                       !.sock = "open", !.connected = TRUE]
                  ELSE CliInit]
  /\ sc = [c \in Conns |-> ScInit]
  /\ ncalls = [c \in Conns |-> IF c = 1 THEN 1 ELSE 0]
  /\ runner = RunnerInit
  /\ stops = [s \in Stoppers |-> StopInit]
  /\ scope = ScopeInit
  /\ naming = NamingInit(FALSE)
  /\ codec = CodecInit

NextFraming ==
  \/ ClientSend(1)
  \/ ClientRecv(1)
  \/ ClientRecvError(1)
  \/ ServerAccept
  \/ ServerRecv
  \/ ServerDispatch

SpecFraming == InitFraming /\ [][NextFraming]_vars

\* the bytes of s the peer has read contain the terminator, or the peer read
\* all of them after the writer closed (a zero-length read)
SawEnd(written, rd, writerClosed) ==
  HasNul(SubSeq(written, 1, rd)) \/ (writerClosed /\ rd = Len(written))

\* C8: _recv_data returns only after a chunk with the terminator or a
\* zero-length read, and when the whole of payload + 0x00 was written, with
\* no terminator inside the payload, it returns the payload stripped of
\* surrounding whitespace, however the bytes were delivered in chunks: on
\* the server for the client's request, on the client for the server's
\* reply.
C8_FramingRoundTrip ==
  \A c \in Conns :
    /\ sc[c].got =>
         /\ SawEnd(cli[c].out, sc[c].rd, cli[c].sock = "closed")
         /\ (cli[c].out = cli[c].payload \o _eof /\ ~HasNul(cli[c].payload))
              => sc[c].msg = Strip(cli[c].payload)
    /\ (cli[c].pc = "done" /\ cli[c].recvs = 1 /\ ~cli[c].terr) =>
         /\ SawEnd(sc[c].out, cli[c].rd, sc[c].end = "closed")
         /\ (sc[c].out = sc[c].reply \o _eof /\ ~HasNul(sc[c].reply))
              => cli[c].raw = Strip(sc[c].reply)

\* C8 witness: a request with whitespace around it was written whole, the
\* server framed it as the stripped payload, and the client framed the
\* server's terminated reply.
C8_Witness ==
  /\ sc[1].got
  /\ cli[1].out = cli[1].payload \o _eof /\ ~HasNul(cli[1].payload)
  /\ Strip(cli[1].payload) # cli[1].payload
  /\ Len(Strip(cli[1].payload)) > 1
  /\ sc[1].msg = Strip(cli[1].payload)
  /\ cli[1].pc = "done" /\ cli[1].recvs = 1 /\ ~cli[1].terr
  /\ sc[1].out = sc[1].reply \o _eof /\ cli[1].raw = sc[1].reply

(***************************************************************************)
(* The background service thread: BackgroundServiceThreadBase and          *)
(* BackgroundServiceThread.  The thread is "initial" until start(),        *)
(* "started" while exec_fn runs and "stopped" once exec_fn has returned.   *)
(* exec_fn is the caller's: a "loop" returns once it has seen the stop     *)
(* event set, a "finite" one returns on its own, a "deaf" one never.       *)
(*                                                                         *)
(* A subclass that supplies _create_thread is built by the base __init__.  *)
(* BackgroundServiceThread.__init__ assigns self.thread_name before it     *)
(* calls the base __init__, and the thread_name setter reads self._thread, *)
(* which no one has assigned: it raises AttributeError and leaves an       *)
(* object with no _stop_event, no _safe_stop and no _thread (built is      *)
(* FALSE, thread is "unset"), on which start() and stop() raise            *)
(* AttributeError.                                                         *)
(***************************************************************************)
Units == {"loop", "finite", "deaf"}

RunnerClasses == {"subclass", "BackgroundServiceThread"}

\* whether __init__ of the class reaches BackgroundServiceThreadBase.__init__
InitCompletes(cls) == cls = "subclass"

WaitArgs == {"None", "True", "False"}

\* __init__(start, safe_stop): the event, the flag, the thread, then
\* start() if asked
InitRunner ==
  /\ binding = "TypedDict"
  /\ TransportInit
  /\ \E cls \in RunnerClasses, st \in BOOLEAN, safe \in BOOLEAN, u \in Units :
       runner = IF InitCompletes(cls)
                  THEN [built |-> TRUE,
                        thread |-> IF st THEN "started" ELSE "initial",
                        stop_event |-> FALSE, safe_stop |-> safe, unit |-> u]
                  ELSE [built |-> FALSE, thread |-> "unset",
                        stop_event |-> FALSE, safe_stop |-> safe, unit |-> u]
  /\ stops = [s \in Stoppers |-> StopInit]
  /\ scope = ScopeInit
  /\ naming = NamingInit(FALSE)
  /\ codec = CodecInit

\* start(): self._thread.start()
RunnerStart ==
  /\ runner.thread = "initial"
  /\ runner' = [runner EXCEPT !.thread = "started"]
  /\ UNCHANGED <<tvars, cvars, nvars, stops, scope>>

\* exec_fn returns: the thread ends
UnitExit ==
  /\ runner.thread = "started"
  /\ \/ runner.unit = "finite"
     \/ runner.unit = "loop" /\ runner.stop_event
     \/ runner.unit = "serve" /\ srv.pc = "Stopped"
  /\ runner' = [runner EXCEPT !.thread = "stopped"]
  /\ UNCHANGED <<tvars, cvars, nvars, stops, scope>>

\* if wait is None: wait = self._safe_stop
EffectiveWaitIgnoresArgument(wait, safe) == safe

EffectiveWait(wait, safe) == IF wait = "None" THEN safe ELSE wait = "True"

\* stop(wait) up to self._stop_event.set(); without wait it returns here.
\* On an object whose __init__ raised, reading self._safe_stop or
\* self._stop_event raises AttributeError.
StopBegin(s, w) ==
  /\ stops[s].pc = "idle"
  /\ stops' = [stops EXCEPT ![s] =
                 [pc |-> IF ~runner.built THEN "raised"
                         ELSE IF EffectiveWait(w, runner.safe_stop)
                           THEN "join" ELSE "returned",
                  wait |-> w]]
  /\ runner' = [runner EXCEPT !.stop_event = runner.built]

\* the thread that runs the with statement
ScopeUser == 1

\* a direct call of stop(wait) by a thread that is not inside the with body
StopSet(s) ==
  /\ ~(s = ScopeUser /\ scope.pc \in {"body", "exiting"})
  /\ \E w \in WaitArgs : StopBegin(s, w)
  /\ UNCHANGED <<tvars, cvars, nvars, scope>>

\* self._thread.join(): returns once the thread has ended, blocks while it
\* runs, raises RuntimeError on a thread that was never started
StopJoin(s) ==
  /\ stops[s].pc = "join"
  /\ runner.thread # "started"
  /\ stops' = [stops EXCEPT ![s].pc =
                 IF runner.thread = "stopped" THEN "returned" ELSE "raised"]
  /\ UNCHANGED <<tvars, cvars, nvars, runner, scope>>

\* with runner: __enter__ calls start(); Thread.start() raises RuntimeError
\* on a thread that was started before, and then the body is not entered
ScopeEnter ==
  /\ scope.pc = "none"
  /\ stops[ScopeUser].pc = "idle"
  /\ runner.built
  /\ IF runner.thread = "initial"
       THEN /\ runner' = [runner EXCEPT !.thread = "started"]
            /\ scope' = [scope EXCEPT !.pc = "body"]
       ELSE /\ runner' = runner
            /\ scope' = [scope EXCEPT !.pc = "enter_raised"]
  /\ UNCHANGED <<tvars, cvars, nvars, stops>>

\* the argument of the stop() call in __exit__: none, so wait is None
ExitStopArgNoWait == "False"

ExitStopArg == "None"

\* the body ends, normally or by an exception: __exit__ calls stop()
ScopeExit ==
  /\ scope.pc = "body"
  /\ \E how \in {"normal", "exception"} :
       scope' = [pc |-> "exiting", how |-> how]
  /\ StopBegin(ScopeUser, ExitStopArg)
  /\ UNCHANGED <<tvars, cvars, nvars>>

\* stop() has returned, __exit__ returns None: control leaves the with
\* statement, and an exception of the body goes on to the caller
ScopeLeave ==
  /\ scope.pc = "exiting"
  /\ stops[ScopeUser].pc = "returned"
  /\ scope' = [scope EXCEPT !.pc = "left"]
  /\ UNCHANGED <<tvars, cvars, nvars, runner, stops>>

\* __del__: the holder of the last reference drops it and the finaliser
\* calls stop() in that thread, also on an object whose __init__ raised; no
\* with statement and no running stop() holds the object then
RunnerDel(s) ==
  /\ scope.pc \notin {"body", "exiting"}
  /\ \A t \in Stoppers : stops[t].pc # "join"
  /\ StopBegin(s, ExitStopArg)
  /\ UNCHANGED <<tvars, cvars, nvars, scope>>

NextRunner ==
  \/ RunnerStart
  \/ UnitExit
  \/ \E s \in Stoppers : StopSet(s)
  \/ \E s \in Stoppers : StopJoin(s)
  \/ \E s \in Stoppers : RunnerDel(s)
  \/ ScopeEnter
  \/ ScopeExit
  \/ ScopeLeave

SpecRunner == InitRunner /\ [][NextRunner]_vars

\* C10: on a runner that was started, stop() sets the stop event before it
\* joins; a stop that waits (wait true, or wait omitted on a safe_stop
\* runner) has returned only when exec_fn has exited; a stop that does not
\* wait returns right after setting the event and never joins.
C10_StopSignalsThenWaits ==
  \A s \in Stoppers :
    LET waits == \/ stops[s].wait = "True"
                 \/ stops[s].wait = "None" /\ runner.safe_stop
    IN  runner.thread \in {"started", "stopped"} =>
        /\ stops[s].pc # "idle" => runner.stop_event
        /\ (stops[s].pc = "returned" /\ waits) => runner.thread = "stopped"
        /\ (stops[s].pc # "idle" /\ ~waits) => stops[s].pc = "returned"

\* C10 witness: on a started runner one stop(wait=False) has returned while
\* another caller's stop(wait=True) was still joining, and that one has
\* returned after exec_fn exited.
C10_Witness ==
  /\ stops[1].pc = "returned" /\ stops[1].wait = "False"
  /\ stops[2].pc = "returned" /\ stops[2].wait = "True"
  /\ ~runner.safe_stop
  /\ runner.thread = "stopped" /\ runner.unit = "loop"

\* C13: the server has at most one accepted connection open, the one it
\* is receiving from or dispatching; a connection is accepted, oldest
\* pending first, only when no other is open; and a reply is written only
\* to the connection being dispatched, which is closed in the same step, so
\* replies come in the order of acceptance.
C13_OneAtATimeInOrder ==
  /\ [](\A c \in Conns :
          sc[c].end = "open" =>
            srv.conn = c /\ srv.pc \in {"Receiving", "Dispatching"})
  /\ [][\A c \in Conns :
          (sc[c].end # "open" /\ sc'[c].end = "open") =>
            /\ backlog # <<>> /\ c = Head(backlog)
            /\ \A d \in Conns \ {c} : sc[d].end # "open"]_vars
  /\ [][\A c \in Conns :
          (sc'[c].out # sc[c].out /\ sc'[c].out # <<>>) =>
            /\ srv.pc = "Dispatching" /\ srv.conn = c
            /\ sc[c].end = "open" /\ sc'[c].end = "closed"]_vars

\* C13 witness: the first connection was answered and closed, and the
\* second, which was made while the first was open, is the open one.
C13_Witness ==
  /\ sc[1].end = "closed" /\ sc[1].out # <<>> /\ sc[1].calls = 1
  /\ sc[2].end = "open" /\ srv.conn = 2 /\ srv.pc = "Dispatching"
  /\ sc[2].msg # _ping_req

\* C14: _no_clients_timeout_callback is entered only from an accept that
\* timed out with nothing pending, its next step is the return to accept
\* (one invocation per expiry), and while it runs no accepted connection is
\* open.
C14_IdleCallbackOncePerTimeout ==
  /\ [](srv.pc = "Callback" =>
          /\ srv.conn = 0
          /\ \A c \in Conns : sc[c].end # "open")
  /\ [][(srv.pc # "Callback" /\ srv'.pc = "Callback") =>
          /\ srv.pc = "Listening" /\ backlog = <<>>
          /\ \A c \in Conns : sc[c].end # "open"]_vars
  /\ [][(srv.pc = "Callback" /\ srv' # srv) =>
          srv' = [srv EXCEPT !.pc = "Listening"]]_vars

\* C14 witness: the accept timeout expired after a connection had been
\* handled, the callback is running, and a new connection is pending for
\* the accept that follows.
C14_Witness ==
  /\ srv.pc = "Callback"
  /\ sc[1].end = "closed" /\ sc[1].out # <<>>
  /\ backlog = <<2>>

\* C17: when an _rpc call made without skip_receive ends while the server is
\* serving, with no transport error and a handler that returned an
\* instance of the response class, it returns without raising the very
\* response the handler returned, the handler having run once on a request
\* equal to the one passed, and both ends of the one connection are closed.
C17_EndToEndRoundTrip ==
  [][\A c \in Conns :
       (/\ cli[c].pc # "done" /\ cli'[c].pc = "done" /\ cli'[c].op = "rpc"
        /\ ~cli'[c].skip /\ ~cli'[c].terr
        /\ srv.pc \notin {"Idle", "Stopped"}
        /\ srv'.pc \notin {"Idle", "Stopped"}
        /\ ~(sc'[c].calls = 1 /\ sc'[c].ret.kind = "int"))
         => /\ cli'[c].exc = "none"
            /\ sc'[c].calls = 1
            /\ Construct(binding, "request",
                         json_loads(sc'[c].msg).val).val = cli'[c].req
            /\ cli'[c].val = sc'[c].ret
            /\ cli'[c].sock = "closed" /\ sc'[c].end = "closed"]_vars

\* C12: inside the with body the unit has been started; when control has
\* left the with statement, after a normal end of the body or an exception
\* in it, the stop event is set and, on a safe_stop runner (the default,
\* where stop() waits), exec_fn has exited.
C12_ScopeStartsAndStops ==
  /\ scope.pc = "body" => runner.thread \in {"started", "stopped"}
  /\ scope.pc \in {"exiting", "left"} => runner.stop_event
  /\ (scope.pc = "left" /\ runner.safe_stop) => runner.thread = "stopped"

\* C12 witness: an exception ended the body of a with statement on a
\* safe_stop runner whose exec_fn returns only on the stop event, and
\* control has left the statement.
C12_Witness ==
  /\ scope.pc = "left" /\ scope.how = "exception"
  /\ runner.safe_stop /\ runner.unit = "loop"
  /\ runner.thread = "stopped"

(***************************************************************************)
(* A runner whose exec_fn runs the server: the unit "serve" is a function  *)
(* that takes stop_event and calls server.start(), and it returns (or      *)
(* raises) when _listen is left.  One caller uses the client meanwhile.    *)
(* The thread and the scheduler are fair to every step that is enabled:    *)
(* the accept timeout expires, the callback returns, a pending connection  *)
(* is accepted, read and dispatched, the client goes on, join returns.     *)
(***************************************************************************)
InitServed ==
  /\ binding = "TypedDict"
  /\ TransportInit
  /\ \E safe \in BOOLEAN :
       runner = [built |-> TRUE, thread |-> "started", stop_event |-> FALSE,
                 safe_stop |-> safe, unit |-> "serve"]
  /\ stops = [s \in Stoppers |-> StopInit]
  /\ scope = ScopeInit
  /\ naming = NamingInit(FALSE)
  /\ codec = CodecInit

NextServed ==
  \/ ServerStart
  \/ ServerAccept
  \/ ServerAcceptTimeout
  \/ NoClientsTimeoutCallback
  \/ ServerRecv
  \/ ServerDispatch
  \/ ClientCall(1)
  \/ ClientSend(1)
  \/ ClientRecv(1)
  \/ UnitExit
  \/ \E s \in Stoppers : StopSet(s)
  \/ \E s \in Stoppers : StopJoin(s)

FairServed ==
  /\ WF_vars(ServerStart)
  /\ WF_vars(ServerAccept)
  /\ WF_vars(ServerAcceptTimeout)
  /\ WF_vars(NoClientsTimeoutCallback)
  /\ WF_vars(ServerRecv)
  /\ WF_vars(ServerDispatch)
  /\ WF_vars(ClientSend(1))
  /\ WF_vars(ClientRecv(1))
  /\ WF_vars(UnitExit)
  /\ \A s \in Stoppers : WF_vars(StopJoin(s))

SpecServed == InitServed /\ [][NextServed]_vars /\ FairServed

\* C11: once the stop event is set while the server is Listening, the
\* accept loop is left and the server reaches Stopped; and a stop() that
\* waits on the runner executing the accept loop returns.
C11_StopReachesServer ==
  /\ (runner.stop_event /\ srv.pc = "Listening") ~> (srv.pc = "Stopped")
  /\ \A s \in Stoppers :
       (stops[s].pc = "join" /\ srv.pc = "Listening")
         ~> (stops[s].pc = "returned")

(***************************************************************************)
(* Thread names: BackgroundServiceThread.__init__, the thread_name         *)
(* property and _make_thread_name, on the class-level Counter              *)
(* _services_count that all runners share.  `count[key] += 1` is a read    *)
(* of the entry followed by a write of it, and another thread may run      *)
(* between the two.  A Counter reads a missing key as 0.                   *)
(***************************************************************************)
MaxRenames == 1

BaseNames == {"A", "B"}

Base(b) == <<b, 0>>

\* Counter.__getitem__ with Counter.__missing__
Get(cnt, key) == IF key \in DOMAIN cnt THEN cnt[key] ELSE 0

\* Counter.__setitem__
Put(cnt, key, v) ==
  [x \in (DOMAIN cnt) \cup {key} |-> IF x = key THEN v ELSE cnt[x]]

\* _make_thread_name: the name, and -count after it unless count is 0
MakeThreadName(base, cnt) == <<base[1], Get(cnt, base)>>

SetObj(k, o) == [naming EXCEPT !.obj[k] = o]

\* the write half of count[key] += d
WriteCount(k, key, d, o) ==
  [naming EXCEPT
     !.count = Put(@, key, naming.obj[k].tmp + d),
     !.incs = IF d > 0 THEN Put(@, key, Get(@, key) + 1) ELSE @,
     !.decs = IF d < 0 THEN Put(@, key, Get(@, key) + 1) ELSE @,
     !.obj[k] = o]

\* __init__ up to the setter's `self._services_count[self.thread_name]`:
\* the getter reads self._thread, which raises AttributeError unless the
\* class has the attribute; with it the getter returns _thread_name and the
\* entry is read
CreateBegin(k) ==
  /\ naming.obj[k].pc = "idle"
  /\ \E b \in BaseNames :
       LET o == [naming.obj[k] EXCEPT !.base = Base(b)]
       IN  naming' =
             IF naming.attr
               THEN SetObj(k, [o EXCEPT !.pc = "setter_write",
                                        !.tmp = Get(naming.count, Base(b))])
               ELSE SetObj(k, [o EXCEPT !.pc = "raised"])
  /\ UNCHANGED <<tvars, cvars, runner, stops, scope>>

\* the setter's increment is written
SetterWrite(k) ==
  /\ naming.obj[k].pc = "setter_write"
  /\ naming' = WriteCount(k, naming.obj[k].base, 1,
                          [naming.obj[k] EXCEPT !.pc = "init_read"])
  /\ UNCHANGED <<tvars, cvars, runner, stops, scope>>

\* __init__: self.__class__._services_count[self.thread_name] += 1, the read
InitRead(k) ==
  /\ naming.obj[k].pc = "init_read"
  /\ naming' = SetObj(k, [naming.obj[k] EXCEPT
                            !.pc = "init_write",
                            !.tmp = Get(naming.count, naming.obj[k].base)])
  /\ UNCHANGED <<tvars, cvars, runner, stops, scope>>

\* and the write
InitWrite(k) ==
  /\ naming.obj[k].pc = "init_write"
  /\ naming' = WriteCount(k, naming.obj[k].base, 1,
                          [naming.obj[k] EXCEPT !.pc = "make_name"])
  /\ UNCHANGED <<tvars, cvars, runner, stops, scope>>

\* super().__init__ -> _create_thread -> Thread(name=_make_thread_name())
MakeName(k) ==
  /\ naming.obj[k].pc = "make_name"
  /\ naming' = SetObj(k, [naming.obj[k] EXCEPT
                            !.pc = "created",
                            !.tname = MakeThreadName(naming.obj[k].base,
                                                     naming.count)])
  /\ UNCHANGED <<tvars, cvars, runner, stops, scope>>

\* runner.thread_name = name on a created runner: _thread_name is not None,
\* the old name's entry is read for the decrement
RenameBegin(k) ==
  /\ naming.obj[k].pc = "created"
  /\ naming.obj[k].renames < MaxRenames
  /\ \E b \in BaseNames :
       naming' = SetObj(k, [naming.obj[k] EXCEPT
                              !.pc = "ren_dec_write", !.arg = Base(b),
                              !.tmp = Get(naming.count, naming.obj[k].base)])
  /\ UNCHANGED <<tvars, cvars, runner, stops, scope>>

\* the decrement is written; self._thread_name = name
RenameDecWrite(k) ==
  /\ naming.obj[k].pc = "ren_dec_write"
  /\ naming' = WriteCount(k, naming.obj[k].base, 0 - 1,
                          [naming.obj[k] EXCEPT !.pc = "ren_inc_read",
                                                !.base = naming.obj[k].arg])
  /\ UNCHANGED <<tvars, cvars, runner, stops, scope>>

\* self._services_count[self.thread_name] += 1: the thread exists, so the
\* getter returns the thread's name, postfix included, and that key is read
RenameIncRead(k) ==
  /\ naming.obj[k].pc = "ren_inc_read"
  /\ naming' = SetObj(k, [naming.obj[k] EXCEPT
                            !.pc = "ren_inc_write",
                            !.tmp = Get(naming.count, naming.obj[k].tname)])
  /\ UNCHANGED <<tvars, cvars, runner, stops, scope>>

RenameIncWrite(k) ==
  /\ naming.obj[k].pc = "ren_inc_write"
  /\ naming' = WriteCount(k, naming.obj[k].tname, 1,
                          [naming.obj[k] EXCEPT !.pc = "ren_name"])
  /\ UNCHANGED <<tvars, cvars, runner, stops, scope>>

\* self._thread.name = self._make_thread_name()
RenameName(k) ==
  /\ naming.obj[k].pc = "ren_name"
  /\ naming' = SetObj(k, [naming.obj[k] EXCEPT
                            !.pc = "created", !.renames = @ + 1,
                            !.tname = MakeThreadName(naming.obj[k].base,
                                                     naming.count)])
  /\ UNCHANGED <<tvars, cvars, runner, stops, scope>>

\* the runner is dropped: __del__ calls stop() and nothing else
Release(k) ==
  /\ naming.obj[k].pc = "created"
  /\ naming' = SetObj(k, [naming.obj[k] EXCEPT !.pc = "released"])
  /\ UNCHANGED <<tvars, cvars, runner, stops, scope>>

InitNaming ==
  /\ binding = "TypedDict"
  /\ TransportInit
  /\ runner = RunnerInit
  /\ stops = [s \in Stoppers |-> StopInit]
  /\ scope = ScopeInit
  /\ \E attr \in BOOLEAN : naming = NamingInit(attr)
  /\ codec = CodecInit

NextNaming ==
  \E k \in Creators :
    \/ CreateBegin(k)
    \/ SetterWrite(k)
    \/ InitRead(k)
    \/ InitWrite(k)
    \/ MakeName(k)
    \/ RenameBegin(k)
    \/ RenameDecWrite(k)
    \/ RenameIncRead(k)
    \/ RenameIncWrite(k)
    \/ RenameName(k)
    \/ Release(k)

SpecNaming == InitNaming /\ [][NextNaming]_vars

\* no creation or rename is under way
Quiet ==
  \A k \in Creators :
    naming.obj[k].pc \in {"idle", "created", "released", "raised"}

\* the runners that hold base name b
Holders(b) ==
  {k \in Creators : naming.obj[k].pc = "created"
                      /\ naming.obj[k].base = Base(b)}

\* C15: whenever no creation or rename is under way, every creation so far
\* has produced a runner, the counter of each base name is the number of
\* runners that hold the name, and a runner that was never renamed carries
\* a postfix between 1 and the number of runners made.
C15_CounterEqualsHolders ==
  Quiet =>
    /\ \A k \in Creators : naming.obj[k].pc # "raised"
    /\ \A b \in BaseNames :
         Get(naming.count, Base(b)) = Cardinality(Holders(b))
    /\ \A k \in Creators :
         (naming.obj[k].pc = "created" /\ naming.obj[k].renames = 0) =>
           naming.obj[k].tname[2] \in 1..Cardinality(Creators)

MaxBlobLen == 2

None == [t |-> "none", v |-> 0]

PyInt(n) == [t |-> "int", v |-> n]

PyStr(cs) == [t |-> "str", v |-> cs]

PyBytes(bs) == [t |-> "bytes", v |-> bs]

PySet(S) == [t |-> "set", v |-> S]

PyDatetime(sec, micro) == [t |-> "datetime", v |-> <<sec, micro>>]

\* class Color(StrEnum): x = 'y'; y = 'z'
ColorMembers ==
  {[name |-> <<120>>, value |-> <<121>>], [name |-> <<121>>, value |-> <<122>>]}

\* class Num(enum.Enum): o = 1; t = 2
NumMembers == {[name |-> <<111>>, value |-> 1], [name |-> <<116>>, value |-> 2]}

PyColor(name) == [t |-> "Color", v |-> name]

PyNum(name) == [t |-> "Num", v |-> name]

PyRecord(cls, fields) == [t |-> "record", v |-> [cls |-> cls, f |-> fields]]

JNull == [j |-> "null", v |-> 0]

JNum(n) == [j |-> "num", v |-> n]

JStr(cs) == [j |-> "str", v |-> cs]

JArr(items) == [j |-> "arr", v |-> items]

JObj(pairs) == [j |-> "obj", v |-> pairs]

\* the base64 alphabet: A-Z a-z 0-9 + /
B64Char(i) ==
  IF i < 26 THEN 65 + i
  ELSE IF i < 52 THEN 97 + (i - 26)
  ELSE IF i < 62 THEN 48 + (i - 52)
  ELSE IF i = 62 THEN 43 ELSE 47

B64Index(c) == CHOOSE i \in 0..63 : B64Char(i) = c

RECURSIVE b64encode(_)
\* base64.b64encode(obj).decode("ascii"): 3 bytes to 4 characters, = padding
b64encode(bs) ==
  IF bs = <<>> THEN <<>>
  ELSE LET n == Len(bs)
           b0 == bs[1]
           b1 == IF n > 1 THEN bs[2] ELSE 0
           b2 == IF n > 2 THEN bs[3] ELSE 0
       IN  <<B64Char(b0 \div 4),
             B64Char((b0 % 4) * 16 + (b1 \div 16)),
             IF n > 1 THEN B64Char((b1 % 16) * 4 + (b2 \div 64)) ELSE 61,
             IF n > 2 THEN B64Char(b2 % 64) ELSE 61>>
           \o (IF n > 3 THEN b64encode(SubSeq(bs, 4, n)) ELSE <<>>)

RECURSIVE b64decode(_)
\* base64.b64decode(s) of correctly padded text
b64decode(cs) ==
  IF cs = <<>> THEN <<>>
  ELSE LET i0 == B64Index(cs[1])
           i1 == B64Index(cs[2])
           b0 == i0 * 4 + (i1 \div 16)
       IN  (IF cs[3] = 61 THEN <<b0>>
            ELSE LET i2 == B64Index(cs[3])
                     b1 == (i1 % 16) * 16 + (i2 \div 4)
                 IN  IF cs[4] = 61 THEN <<b0, b1>>
                     ELSE <<b0, b1, (i2 % 4) * 64 + B64Index(cs[4])>>)
           \o b64decode(SubSeq(cs, 5, Len(cs)))

\* the six digits of the microsecond
Digits6(n) ==
  [i \in 1..6 |->
     48 + (CASE i = 1 -> (n \div 100000) % 10
             [] i = 2 -> (n \div 10000) % 10
             [] i = 3 -> (n \div 1000) % 10
             [] i = 4 -> (n \div 100) % 10
             [] i = 5 -> (n \div 10) % 10
             [] OTHER -> n % 10)]

\* datetime.isoformat(): the date and time to the second (here the digit of
\* the second stands for it), then .ffffff unless the microsecond is 0
isoformat(d) ==
  <<48 + d[1]>> \o (IF d[2] = 0 THEN <<>> ELSE <<46>> \o Digits6(d[2]))

\* datetime.fromisoformat(s)
fromisoformat(cs) ==
  <<cs[1] - 48,
    IF Len(cs) = 1 THEN 0
    ELSE (cs[3] - 48) * 100000 + (cs[4] - 48) * 10000 + (cs[5] - 48) * 1000
           + (cs[6] - 48) * 100 + (cs[7] - 48) * 10 + (cs[8] - 48)>>

\* a dict, as asdict builds it: the <<key, value>> pairs in field order
PyDict(pairs) == [t |-> "dict", v |-> pairs]

PyList(items) == [t |-> "list", v |-> items]

(***************************************************************************)
(* The record classes of the model.  Msg is a request class with one field *)
(* of each extended type, MsgSkip is Msg with                              *)
(* _json_encoder_cls = JSONSkipNoneEncoder, Inner is a nested message.     *)
(*   @dataclass                         @dataclass                         *)
(*   class Msg(APIRequest):             class Inner(APIMessage):           *)
(*       blob: Optional[bytes] = None       _type: str = "i"               *)
(*       tags: Optional[Set[int]] = None    opt: Optional[str] = None      *)
(*       when: Optional[datetime] = None                                   *)
(*       col: Optional[Color] = None                                       *)
(*       num: Optional[Num] = None                                         *)
(*       inner: Optional[Inner] = None                                     *)
(***************************************************************************)
Field(name, type, dflt) == [name |-> name, type |-> type, dflt |-> dflt]

\* a type annotation: a plain class has no __origin__ and no __args__,
\* Optional[T] is Union[T, None]
Plain(T) == [origin |-> "None", args |-> <<>>, cls |-> T]

OptionalOf(T) == [origin |-> "Union", args |-> <<T, "NoneType">>, cls |-> "Union"]

is_optional_type(typ) ==
  /\ typ.origin = "Union"
  /\ typ.args # <<>>
  /\ \E i \in 1..Len(typ.args) : typ.args[i] = "NoneType"

\* dataclasses.fields(cls): APIMessage's _uid and _type, APIRequest's
\* command, then the class's own
Schema(cls) ==
  IF cls = "Inner"
    THEN <<Field("_uid", Plain("int"), None),
           Field("_type", Plain("str"), PyStr(<<105>>)),
           Field("opt", OptionalOf("str"), None)>>
    ELSE <<Field("_uid", Plain("int"), None),
           Field("_type", Plain("str"), PyStr(<<114>>)),
           Field("command", Plain("str"), None),
           Field("blob", OptionalOf("bytes"), None),
           Field("tags", OptionalOf("set"), None),
           Field("when", OptionalOf("datetime"), None),
           Field("col", OptionalOf("Color"), None),
           Field("num", OptionalOf("Num"), None),
           Field("inner", OptionalOf("Inner"), None)>>

FieldNames(cls) == {Schema(cls)[i].name : i \in 1..Len(Schema(cls))}

\* _json_encoder_cls of the class
EncoderOf(cls) ==
  IF cls = "MsgSkip" THEN "JSONSkipNoneEncoder" ELSE "JSONExtendedEncoder"

\* the values uuid4().int may give
Uids == {7, 8}

\* a call that returns val, a call that raises exc
Ok(val) == [exc |-> "none", val |-> val]

Err(exc) == [exc |-> exc, val |-> None]

\* APIMessage.__post_init__ on the fields the dataclass __init__ has set:
\* the first field other than _uid that is None and not Optional raises
\* TypeError; _uid is set to uid when it is None
post_init(cls, kw, uid) ==
  LET sch == Schema(cls)
      bad == {i \in 1..Len(sch) :
                /\ sch[i].name # "_uid"
                /\ kw[sch[i].name].t = "none"
                /\ ~is_optional_type(sch[i].type)}
  IN  IF bad # {}
        THEN Err("TypeError")
        ELSE Ok(PyRecord(cls, [kw EXCEPT !["_uid"] =
                                 IF @.t = "none" THEN PyInt(uid) ELSE @]))

\* dict_skip_none_factory
dict_skip_none_factory(keyvalue_pairs) ==
  SelectSeq(keyvalue_pairs, LAMBDA p : p[2].t # "none")

RECURSIVE asdict(_, _)
\* dataclasses.asdict(obj, dict_factory=...): nested dataclass instances
\* become dicts by the same factory, other values are copied
asdict(rec, factory) ==
  LET sch == Schema(rec.v.cls)
      pairs == [i \in 1..Len(sch) |->
                  LET x == rec.v.f[sch[i].name]
                  IN  <<sch[i].name,
                        IF x.t = "record" THEN asdict(x, factory) ELSE x>>]
  IN  PyDict(IF factory = "dict_skip_none_factory"
               THEN dict_skip_none_factory(pairs)
                                                   ELSE pairs)

\* to_dict: _dict_factory is dict and _dict_excluded_fields is empty
to_dict(rec) == asdict(rec, "dict")

RECURSIVE SetToList(_, _)
\* list(obj) of a set, in ascending or in descending order
SetToList(S, asc) ==
  IF S = {} THEN <<>>
  ELSE LET x == IF asc THEN CHOOSE m \in S : \A y \in S : m <= y
                       ELSE CHOOSE m \in S : \A y \in S : m >= y
       IN  <<x>> \o SetToList(S \ {x}, asc)

RECURSIVE dumps(_, _, _)
\* json.dumps(obj, cls=enc): what JSON has no form for goes through
\* enc.default and the result is encoded in turn
dumps(x, enc, asc) ==
  CASE x.t = "none" -> JNull
    [] x.t = "int" -> JNum(x.v)
    [] x.t = "str" -> JStr(x.v)
    [] x.t = "dict" ->
         JObj([i \in 1..Len(x.v) |-> <<x.v[i][1], dumps(x.v[i][2], enc, asc)>>])
    [] x.t = "list" -> JArr([i \in 1..Len(x.v) |-> dumps(x.v[i], enc, asc)])
    [] x.t = "bytes" -> JStr(b64encode(x.v))
    [] x.t = "set" ->
         LET l == SetToList(x.v, asc)
         IN  JArr([i \in 1..Len(l) |-> JNum(l[i])])
    [] x.t = "datetime" -> JStr(isoformat(x.v))
    [] x.t = "Color" -> JStr(x.v)
    [] x.t = "Num" ->
         JNum((CHOOSE m \in NumMembers : m.name = x.v).value)
    [] x.t = "record" ->
         dumps(asdict(x, IF enc = "JSONSkipNoneEncoder"
                           THEN "dict_skip_none_factory" ELSE "dict"),
               enc, asc)

\* to_json(override_data): the dict of the record, or override_data when it
\* is given, through json.dumps with the encoder of the class;
\* _serialization_excluded_fields is empty
to_json(rec, override_data, asc) ==
  LET data == IF override_data.t # "none" THEN override_data ELSE to_dict(rec)
  IN  dumps(data, EncoderOf(rec.v.cls), asc)

RECURSIVE loads(_)
\* json.loads: null, numbers, strings, arrays and objects as None, int, str,
\* list and dict
loads(j) ==
  CASE j.j = "null" -> None
    [] j.j = "num" -> PyInt(j.v)
    [] j.j = "str" -> PyStr(j.v)
    [] j.j = "arr" -> PyList([i \in 1..Len(j.v) |-> loads(j.v[i])])
    [] j.j = "obj" ->
         PyDict([i \in 1..Len(j.v) |-> <<j.v[i][1], loads(j.v[i][2])>>])

\* the member of that value first
StrEnumCallByValue(x) ==
  IF x.t # "str" THEN Err("ValueError")
  ELSE IF \E m \in ColorMembers : m.value = x.v
    THEN Ok(PyColor((CHOOSE m \in ColorMembers : m.value = x.v).name))
  ELSE IF \E m \in ColorMembers : m.name = x.v THEN Ok(PyColor(x.v))
  ELSE Err("ValueError")

\* StrEnumMeta.__call__: the member of that name, else the member of that
\* value, else ValueError
StrEnumCall(x) ==
  IF x.t # "str" THEN Err("ValueError")
  ELSE IF \E m \in ColorMembers : m.name = x.v THEN Ok(PyColor(x.v))
  ELSE IF \E m \in ColorMembers : m.value = x.v
    THEN Ok(PyColor((CHOOSE m \in ColorMembers : m.value = x.v).name))
  ELSE Err("ValueError")

\* enum.EnumMeta.__call__: the member of that value, else ValueError
EnumCall(x) ==
  IF x.t = "int" /\ \E m \in NumMembers : m.value = x.v
    THEN Ok(PyNum((CHOOSE m \in NumMembers : m.value = x.v).name))
    ELSE Err("ValueError")

RECURSIVE BuildValue(_, _, _)
RECURSIVE from_dict(_, _, _)
\* dacite's value for a field of annotation typ from the loaded value x:
\* None stays None under Optional, the type hooks decode bytes and datetime,
\* Set and Enum targets are cast, a nested dataclass is built from its dict,
\* and the result must be an instance of the target type
BuildValue(typ, x, uid) ==
  IF is_optional_type(typ) /\ x.t = "none" THEN Ok(None)
  ELSE LET T == IF is_optional_type(typ) THEN typ.args[1] ELSE typ.cls
       IN  CASE T = "bytes" ->
                  IF x.t = "str" THEN Ok(PyBytes(b64decode(x.v)))
                                 ELSE Err("TypeError")
             [] T = "datetime" ->
                  IF x.t = "str" THEN Ok(PyDatetime(fromisoformat(x.v)[1],
                                                    fromisoformat(x.v)[2]))
                                 ELSE Err("TypeError")
             [] T = "set" ->
                  IF x.t # "list" THEN Err("TypeError")
                  ELSE IF \E i \in 1..Len(x.v) : x.v[i].t # "int"
                    THEN Err("WrongTypeError")
                    ELSE Ok(PySet({x.v[i].v : i \in 1..Len(x.v)}))
             [] T = "Color" -> StrEnumCall(x)
             [] T = "Num" -> EnumCall(x)
             [] T = "Inner" ->
                  IF x.t = "dict" THEN from_dict(T, x, uid)
                                  ELSE Err("WrongTypeError")
             [] OTHER -> IF x.t = T THEN Ok(x) ELSE Err("WrongTypeError")

\* cls.from_dict(data): dacite.from_dict builds each field from its key, or
\* takes the field's default when the key is missing, and calls cls(**values),
\* which runs __post_init__; keys that are no field are ignored
from_dict(cls, data, uid) ==
  LET sch == Schema(cls)
      at(k) == data.v[CHOOSE i \in 1..Len(data.v) : data.v[i][1] = k][2]
      has(k) == \E i \in 1..Len(data.v) : data.v[i][1] = k
      built == [i \in 1..Len(sch) |->
                  IF has(sch[i].name)
                    THEN BuildValue(sch[i].type, at(sch[i].name), uid)
                    ELSE Ok(sch[i].dflt)]
      bad == {i \in 1..Len(sch) : built[i].exc # "none"}
      idx(n) == CHOOSE i \in 1..Len(sch) : sch[i].name = n
  IN  IF data.t # "dict" THEN Err("WrongTypeError")
      ELSE IF bad # {}
        THEN Err(built[CHOOSE i \in bad : \A k \in bad : i <= k].exc)
        ELSE post_init(cls, [n \in FieldNames(cls) |-> built[idx(n)].val], uid)

\* cls.from_json(data_str)
from_json(cls, doc, uid) == from_dict(cls, loads(doc), uid)


(***************************************************************************)
(* Inputs of the codec: the keyword arguments a caller passes.             *)
(***************************************************************************)
\* the byte strings b"", b"\xff", b"\xff\xff", ... of length up to n
Blobs(n) == {[i \in 1..k |-> 255] : k \in 0..n}

MsgClasses == {"Msg", "MsgSkip"}

\* an argument left out (FALSE) or given (TRUE) with one of the values S
Maybe(S, unused) == {<<FALSE, unused>>} \cup {<<TRUE, x>> : x \in S}

Given(m, Make(_)) == IF m[1] THEN Make(m[2]) ELSE None

\* Inner(opt=...) as the caller builds it
MakeInner(withOpt) ==
  post_init("Inner",
            [_uid |-> None, _type |-> PyStr(<<105>>),
             opt |-> IF withOpt THEN PyStr(<<111>>) ELSE None], 9).val

MakeDatetime(d) == PyDatetime(d[1], d[2])

\* what the caller chooses for each keyword argument
KwChoices ==
  [u : BOOLEAN, ty : BOOLEAN, c : BOOLEAN,
   b : Maybe(Blobs(MaxBlobLen), <<>>),
   tg : Maybe(SUBSET {1, 2}, {}),
   w : Maybe({<<5, 0>>, <<5, 120>>}, <<0, 0>>),
   co : Maybe({m.name : m \in ColorMembers}, <<>>),
   nu : Maybe({m.name : m \in NumMembers}, <<>>),
   inn : Maybe(BOOLEAN, FALSE)]

\* the keyword arguments of a choice; _type is the class default "r" unless
\* the caller passes None
Kwargs(ch) ==
  [_uid |-> IF ch.u THEN PyInt(3) ELSE None,
   _type |-> IF ch.ty THEN PyStr(<<114>>) ELSE None,
   command |-> IF ch.c THEN PyStr(<<99>>) ELSE None,
   blob |-> Given(ch.b, PyBytes),
   tags |-> Given(ch.tg, PySet),
   when |-> Given(ch.w, MakeDatetime),
   col |-> Given(ch.co, PyColor),
   num |-> Given(ch.nu, PyNum),
   inner |-> Given(ch.inn, MakeInner)]

RECURSIVE Same(_, _)
\* == of two values: of the same type and equal, records field for field
Same(a, b) ==
  /\ a.t = b.t
  /\ IF a.t = "record"
       THEN /\ a.v.cls = b.v.cls
            /\ \A n \in FieldNames(a.v.cls) : Same(a.v.f[n], b.v.f[n])
       ELSE IF a.t \in {"dict", "list"} THEN FALSE ELSE a.v = b.v

(***************************************************************************)
(* The codec's operations.                                                 *)
(***************************************************************************)
\* cls(**kw): the dataclass __init__ sets the fields, __post_init__ checks
CodecConstruct ==
  /\ codec.pc = "new"
  /\ \E cls \in MsgClasses, ch \in KwChoices, uid \in Uids :
       LET r == post_init(cls, Kwargs(ch), uid)
       IN  codec' = [pc |-> IF r.exc = "none" THEN "built" ELSE "raised",
                     cls |-> cls, args |-> Kwargs(ch), rec |-> r.val,
                     exc |-> r.exc]
  /\ UNCHANGED <<tvars, runner, stops, scope, naming>>

\* rec.to_json()
CodecToJson ==
  /\ codec.pc = "built"
  /\ \E asc \in BOOLEAN :
       codec' = [pc |-> "encoded", cls |-> codec.cls, rec |-> codec.rec,
                 via |-> "to_json", wire |-> to_json(codec.rec, None, asc)]
  /\ UNCHANGED <<tvars, runner, stops, scope, naming>>

\* rec.to_json(override_data={"body": rec})
CodecToJsonOverride ==
  /\ codec.pc = "built"
  /\ \E asc \in BOOLEAN :
       codec' = [pc |-> "encoded", cls |-> codec.cls, rec |-> codec.rec,
                 via |-> "override",
                 wire |-> to_json(codec.rec,
                                  PyDict(<<<<"body", codec.rec>>>>), asc)]
  /\ UNCHANGED <<tvars, runner, stops, scope, naming>>

\* a document a peer sends: each key left out, null, or with a value; the
\* keys of the Optional fields left out or with a value
DocChoices ==
  [u : {"out", "null", "val"}, ty : {"out", "null", "val"},
   c : {"out", "null", "val"},
   b : BOOLEAN, tg : BOOLEAN, w : BOOLEAN, co : {"out", "name", "value"},
   nu : BOOLEAN, inn : BOOLEAN]

Key(how, k, j) ==
  IF how = "out" THEN <<>> ELSE <<<<k, IF how = "null" THEN JNull ELSE j>>>>

Document(ch) ==
  JObj(Key(ch.u, "_uid", JNum(3))
       \o Key(ch.ty, "_type", JStr(<<114>>))
       \o Key(ch.c, "command", JStr(<<99>>))
       \o Key(IF ch.b THEN "val" ELSE "out", "blob", JStr(<<65, 80, 56, 61>>))
       \o Key(IF ch.tg THEN "val" ELSE "out", "tags",
              JArr(<<JNum(2), JNum(1), JNum(2)>>))
       \o Key(IF ch.w THEN "val" ELSE "out", "when",
              JStr(<<53, 46, 48, 48, 48, 49, 50, 48>>))
       \o Key(IF ch.co = "out" THEN "out" ELSE "val", "col",
              JStr(IF ch.co = "name" THEN <<121>> ELSE <<122>>))
       \o Key(IF ch.nu THEN "val" ELSE "out", "num", JNum(2))
       \o Key(IF ch.inn THEN "val" ELSE "out", "inner",
              JObj(<<<<"_uid", JNum(9)>>, <<"opt", JNull>>>>)))

CodecReceive ==
  /\ codec.pc = "new"
  /\ \E cls \in MsgClasses, ch \in DocChoices :
       codec' = [pc |-> "encoded", cls |-> cls, rec |-> None, via |-> "peer",
                 wire |-> Document(ch)]
  /\ UNCHANGED <<tvars, runner, stops, scope, naming>>

\* cls.from_json(wire)
CodecFromJson ==
  /\ codec.pc = "encoded"
  /\ codec.via \in {"to_json", "peer"}
  /\ \E uid \in Uids :
       LET r == from_json(codec.cls, codec.wire, uid)
       IN  codec' = [pc |-> "decoded", cls |-> codec.cls, rec |-> codec.rec,
                     via |-> codec.via, wire |-> codec.wire, out |-> r.val,
                     oexc |-> r.exc]
  /\ UNCHANGED <<tvars, runner, stops, scope, naming>>

InitCodec ==
  /\ binding = "TypedDict"
  /\ TransportInit
  /\ runner = RunnerInit
  /\ stops = [s \in Stoppers |-> StopInit]
  /\ scope = ScopeInit
  /\ naming = NamingInit(FALSE)
  /\ codec = CodecInit

NextCodec ==
  \/ CodecConstruct
  \/ CodecToJson
  \/ CodecToJsonOverride
  \/ CodecReceive
  \/ CodecFromJson

SpecCodec == InitCodec /\ [][NextCodec]_vars

(***************************************************************************)
(* Properties of the codec.                                                *)
(***************************************************************************)
HasKey(doc, k) == \E i \in 1..Len(doc.v) : doc.v[i][1] = k

AtKey(doc, k) == doc.v[CHOOSE i \in 1..Len(doc.v) : doc.v[i][1] = k][2]

\* C18: a record that to_json encoded and from_json decoded as its own class
\* is decoded without an exception into a record equal to it field for
\* field: nested record, set, blob, timestamp and both enumerations included
C18_CodecRoundTrip ==
  (codec.pc = "decoded" /\ codec.via = "to_json")
    => (codec.oexc = "none" /\ Same(codec.out, codec.rec))

\* a record with every extended field set has made the round trip
C18_Witness ==
  /\ codec.pc = "decoded"
  /\ codec.via = "to_json"
  /\ codec.rec.v.f["blob"].t = "bytes"
  /\ Len(codec.rec.v.f["blob"].v) = 2
  /\ codec.rec.v.f["tags"].t = "set"
  /\ codec.rec.v.f["tags"].v = {1, 2}
  /\ codec.rec.v.f["when"].t = "datetime"
  /\ codec.rec.v.f["when"].v[2] # 0
  /\ codec.rec.v.f["col"].t = "Color"
  /\ codec.rec.v.f["col"].v = <<121>>
  /\ codec.rec.v.f["num"].t = "Num"
  /\ codec.rec.v.f["inner"].t = "record"
  /\ codec.rec.v.f["inner"].v.f["opt"].t = "str"
  /\ Same(codec.out, codec.rec)

\* the fields of cls that must be given: not Optional and not the identifier
Required(cls) ==
  {Schema(cls)[i].name : i \in {k \in 1..Len(Schema(cls)) :
      /\ Schema(cls)[k].name # "_uid"
      /\ ~is_optional_type(Schema(cls)[k].type)}}

\* C19: a construction, by a call or by decoding a document, fails and yields
\* no record when a required field is absent (None, null, or left out with
\* no other default); with only Optional fields and the identifier absent it
\* succeeds and the record's identifier is populated
C19_RequiredFieldEnforcement ==
  /\ codec.pc \in {"built", "raised"} =>
       IF \E n \in Required(codec.cls) : codec.args[n].t = "none"
         THEN codec.exc # "none" /\ codec.rec.t = "none"
         ELSE /\ codec.exc = "none"
              /\ codec.rec.t = "record"
              /\ codec.rec.v.f["_uid"].t = "int"
  /\ (codec.pc = "decoded" /\ codec.via = "peer") =>
       IF \E n \in Required(codec.cls) :
            \/ HasKey(codec.wire, n) /\ AtKey(codec.wire, n).j = "null"
            \/ /\ ~HasKey(codec.wire, n)
               /\ \E i \in 1..Len(Schema(codec.cls)) :
                    /\ Schema(codec.cls)[i].name = n
                    /\ Schema(codec.cls)[i].dflt.t = "none"
         THEN codec.oexc # "none" /\ codec.out.t = "none"
         ELSE /\ codec.oexc = "none"
              /\ codec.out.t = "record"
              /\ codec.out.v.f["_uid"].t = "int"

\* C20: the document to_json emits for a record of a class that uses the
\* skip-none encoder lacks the key of every field that is None, and the
\* document for a class that uses the plain encoder has that key with null
C20_SkipNoneEncoding ==
  (codec.pc = "encoded" /\ codec.via = "to_json") =>
    \A n \in FieldNames(codec.cls) :
      codec.rec.v.f[n].t = "none" =>
        IF EncoderOf(codec.cls) = "JSONSkipNoneEncoder"
          THEN ~HasKey(codec.wire, n)
          ELSE HasKey(codec.wire, n) /\ AtKey(codec.wire, n).j = "null"

(***************************************************************************)
(* Further properties of the transport.                                    *)
(***************************************************************************)
\* C21: a transport failure on an accepted connection (the peer has closed
\* before the reply is sent, so that sendall raises) closes that connection
\* only: it never ends the accept loop, the server stays Listening.
C21_TransportFailureKeepsListening ==
  ~(srv.pc = "Stopped" /\ srv.at = "sendall")

\* C23: a client that is receiving, or has received, has written every byte
\* of the request and its terminator to the connection before, also when
\* the transport took only part of the bytes in one write.
C23_SendCompletesBeforeReceive ==
  \A c \in Conns :
    (cli[c].pc = "recv" \/ cli[c].recvs = 1) =>
      cli[c].out = SentAppendsEof(cli[c].payload)

\* no whitespace at either end and no terminator byte at the end
Clean(b) ==
  b = <<>> \/ (b[1] \notin Whitespace /\ b[Len(b)] \notin Whitespace \cup {0})

\* ping, then only terminator bytes and whitespace
PingThenPadding(b) ==
  /\ IsPrefix(_ping_req, b)
  /\ \A i \in (Len(_ping_req) + 1)..Len(b) : b[i] \in Whitespace \cup {0}

\* C22: what _recv_data returns, on the server and on the client, has no
\* whitespace at either end and no terminator byte at its end, whatever the
\* order of the terminator bytes and the whitespace after the payload; and
\* an assembled buffer that is ping followed by terminator bytes and
\* whitespace is dispatched as the ping.
C22_ReceivedIsStripped ==
  /\ \A c \in Conns :
       /\ sc[c].got => Clean(sc[c].msg)
       /\ (cli[c].pc = "done" /\ cli[c].recvs = 1 /\ ~cli[c].terr) =>
            Clean(cli[c].raw)
  /\ (srv.pc = "Dispatching" /\ PingThenPadding(srv.buf)) =>
       IsPing(sc[srv.conn].msg)

(***************************************************************************)
(* One caller and the server under fair scheduling: the server's thread    *)
(* takes every step it can (an accept, its timeout, the callback's return, *)
(* a read, the dispatch), the client's write and read go on, and the       *)
(* client's read times out (_socket_timeout) when nothing arrives.  The    *)
(* server handles one connection at a time, so the caller of the accepted  *)
(* connection is the only one its handling depends on.  The caller makes   *)
(* one call: no other connection exists whose handling could stop the      *)
(* server while this one is being written, so sock.send does not raise.    *)
(***************************************************************************)
NextCalls ==
  \/ ncalls[1] = 0 /\ ClientCall(1)
  \/ ClientSend(1)
  \/ ClientRecv(1)
  \/ ClientRecvError(1)
  \/ ServerStart
  \/ ServerAccept
  \/ ServerAcceptTimeout
  \/ NoClientsTimeoutCallback
  \/ ServerRecv
  \/ ServerDispatch

\* ENABLED <<ClientRecv(c)>>_vars written out: sock.recv returns when bytes
\* are waiting or the peer has closed, and the step changes the caller unless
\* an empty read neither ends the loop nor is the first read
ClientRecvReady(c) ==
  /\ cli[c].pc = "recv"
  /\ \/ Len(sc[c].out) > cli[c].rd
     \/ /\ sc[c].end = "closed"
        /\ RecvBreak(<<>>) \/ cli[c].recvs # 1

\* WF_vars(ClientRecv(c)), with the enabling condition written out
FairClientRecv(c) ==
  []<>(~ClientRecvReady(c)) \/ []<><<ClientRecv(c)>>_vars

FairCalls ==
  /\ WF_vars(ServerStart)
  /\ WF_vars(ServerAccept)
  /\ WF_vars(ServerAcceptTimeout)
  /\ WF_vars(NoClientsTimeoutCallback)
  /\ WF_vars(ServerRecv)
  /\ WF_vars(ServerDispatch)
  /\ WF_vars(ClientSend(1))
  /\ FairClientRecv(1)
  /\ WF_vars(ClientRecvError(1))

SpecCalls == Init /\ [][NextCalls]_vars /\ FairCalls

\* C24: a call or probe whose connection the server has accepted ends, by
\* returning or raising; and the server never leaves an accepted connection
\* but by closing it, reply terminated or not, so that the client's reading
\* of a closed connection with no terminator in it ends with a read of
\* zero bytes, everything written having been read.
C24_AcceptedCallEnds ==
  /\ [][\A c \in Conns :
          (sc[c].end = "open" /\ sc'[c].end # "open") =>
            sc'[c].end = "closed"]_vars
  /\ [][\A c \in Conns :
          (/\ cli[c].pc = "recv" /\ cli'[c].pc = "done"
           /\ sc[c].end = "closed" /\ ~HasNul(sc[c].out)) =>
            (cli[c].rd = Len(sc[c].out) /\ cli'[c].rd = cli[c].rd)]_vars
  /\ \A c \in Conns : (sc[c].end = "open") ~> (cli[c].pc = "done")

\* C24 witness: the caller's _rpc has returned after reading a reply that
\* carries no terminator, up to the zero-length read of the connection the
\* server closed.
C24_Witness ==
  /\ cli[1].pc = "done" /\ cli[1].op = "rpc" /\ ~cli[1].terr
  /\ cli[1].recvs = 1 /\ cli[1].exc = "none"
  /\ cli[1].rd = Len(sc[1].out)
  /\ sc[1].out # <<>> /\ ~HasNul(sc[1].out) /\ sc[1].end = "closed"


\* C25: stop() on a runner that __init__ has built returns without raising
\* whenever it is called (before start(), while exec_fn runs, after it has
\* exited, a second time, from __exit__ or from __del__), and the stop event
\* once set stays set.
C25_StopSafeInEveryState ==
  /\ [](\A s \in Stoppers : runner.built => stops[s].pc # "raised")
  /\ [][runner.stop_event => runner'.stop_event]_vars

=============================================================================
